---- MODULE Spec2Model ----
(***************************************************************************)
(* Model of the two utilities of the repository:                           *)
(*   - src/app.py: upload_with_real_progress, the chunked base64 upload    *)
(*     of a local file through one HTTP PUT (specification Spec);          *)
(*   - GeminiTextAI.stream, the generator that turns the chunks of a chat  *)
(*     model into an ordered stream of events (specification SpecStream).  *)
(* Byte strings and texts are sequences (of integers 0..255, of one        *)
(* character strings); base64 is computed as RFC 4648 defines it.          *)
(***************************************************************************)
EXTENDS Integers, Sequences, FiniteSets, TLC

\* ------------------------------------------------------------------ bounds

\* files have k * ChunkSize + r bytes, k in 0..MaxChunks, r in 0..MaxRem
MaxChunks == 2
MaxRem == 2
\* file contents are generated from the seeds 0..MaxSeed
MaxSeed == 1
\* the chat model yields at most MaxStreamChunks chunks
MaxStreamChunks == 2

\* ------------------------------------------------------- program constants

\* f.read(4096)
ChunkSize == 4096

\* Python's None (distinct from every sequence of characters)
None == <<"<None>">>

Min(a, b) == IF a < b THEN a ELSE b

\* ------------------------------------------------------------------ base64

B64Alphabet ==
  << "A","B","C","D","E","F","G","H","I","J","K","L","M","N","O","P",
     "Q","R","S","T","U","V","W","X","Y","Z","a","b","c","d","e","f",
     "g","h","i","j","k","l","m","n","o","p","q","r","s","t","u","v",
     "w","x","y","z","0","1","2","3","4","5","6","7","8","9","+","/" >>

B64Pad == "="

\* base64.b64encode(b): every group of three bytes gives four characters;
\* a last group of one or two bytes is zero filled and padded with "=".
b64encode(b) ==
  LET n == Len(b)
      byteAt(i) == IF i <= n THEN b[i] ELSE 0
      Pow64(e) == IF e = 0 THEN 1 ELSE IF e = 1 THEN 64
                  ELSE IF e = 2 THEN 4096 ELSE 262144
  IN  [ k \in 1..(4 * ((n + 2) \div 3)) |->
          LET g == (k - 1) \div 4
              j == (k - 1) % 4
              v == byteAt(3 * g + 1) * 65536 + byteAt(3 * g + 2) * 256
                   + byteAt(3 * g + 3)
          IN  IF 3 * g + j > n THEN B64Pad
              ELSE B64Alphabet[((v \div Pow64(3 - j)) % 64) + 1] ]

\* b"".join(chunks)
RECURSIVE Join(_)
Join(chunks) ==
  IF chunks = <<>> THEN <<>> ELSE Head(chunks) \o Join(Tail(chunks))

\* sum(amounts)
RECURSIVE Sum(_)
Sum(amounts) ==
  IF amounts = <<>> THEN 0 ELSE Head(amounts) + Sum(Tail(amounts))

\* ------------------------------------------------------- repo identifier

\* "/" in s
HasSlash(s) == \E i \in 1..Len(s) : s[i] = "/"

\* s.split("/")
RECURSIVE Split(_)
Split(s) ==
  IF ~HasSlash(s) THEN << s >>
  ELSE LET i == CHOOSE k \in 1..Len(s) :
                  s[k] = "/" /\ \A m \in 1..(k - 1) : s[m] # "/"
       IN  << SubSeq(s, 1, i - 1) >> \o Split(SubSeq(s, i + 1, Len(s)))

\* REPO_NAME.split("/")[0] if "/" in REPO_NAME else None
OwnerOfNoNone(name) == Split(name)[1]
OwnerOf(name) == IF HasSlash(name) THEN Split(name)[1] ELSE None

\* REPO_NAME.split("/")[1] if "/" in REPO_NAME else REPO_NAME
RepoOf(name) == IF HasSlash(name) THEN Split(name)[2] ELSE name

\* Python truth value of a string or None
Truthy(x) == x # None /\ x # <<>>

\* ------------------------------------------------------------------ inputs

RepoNames ==
  { << "o", "/", "r" >>, << "o", "r" >>, << "/", "r" >>, << "o", "/" >>,
    << "/" >>, << "a", "/", "b", "/", "c" >>, << >> }

FileSizes == { k * ChunkSize + r : k \in 0..MaxChunks, r \in 0..MaxRem }

FileBytes(n, seed) == [ i \in 1..n |-> (seed * 101 + i * 37) % 256 ]

\* number of f.read calls a complete pass over n bytes makes
ReadsOf(n) == ((n + ChunkSize - 1) \div ChunkSize) + 1

StatusCodes == { 200, 201, 204, 403, 500 }
BodyTexts == { "", "Bad credentials" }

\* ------------------------------------------------------------------- state

VARIABLES
  REPO_NAME,       \* CONFIG["GITHUB_REPO_NAME"]
  fileKind,        \* "regular", "missing" or "unopenable" (what local_file_path names)
  fileContent,     \* the bytes of the file
  readFailAt,      \* 0, or the number of the f.read call that raises OSError
  pc,              \* position in upload_with_real_progress
  owner, repo_name, url,
  file_size,
  f_open,          \* the file object is open
  f_pos,           \* its read position
  reads,           \* f.read calls made
  encoded_chunks,
  pbar_total, pbar_n,
  updates,         \* the amounts passed to pbar.update, in order
  content_b64,
  requests,        \* the PUT requests issued, in order
  response,        \* the response of requests.put
  printed,         \* the outcome printed at the end
  exception,       \* the exception the call raised
  io,              \* the file and network operations attempted, in order
  \* GeminiTextAI.stream
  chunks,          \* what self.model.stream(context) yields
  s_pc,            \* position in stream
  events,          \* the events yielded so far
  ai_response,
  started,
  grounding_metadatas,
  ci,              \* chunks taken from the model
  bi,              \* blocks of the current chunk handled
  gi,              \* grounding metadatas handled
  ctx_messages     \* messages appended to the context

uploadVars ==
  << REPO_NAME, fileKind, fileContent, readFailAt, pc, owner, repo_name, url,
     file_size, f_open, f_pos, reads, encoded_chunks, pbar_total, pbar_n,
     updates, content_b64, requests, response, printed, exception, io >>

streamVars ==
  << chunks, s_pc, events, ai_response, started, grounding_metadatas, ci, bi,
     gi, ctx_messages >>

vars == << uploadVars, streamVars >>

NoResponse == [ status_code |-> 0, text |-> "" ]

\* the locals of upload_with_real_progress before its first statement
UploadLocalsInit ==
  /\ pc = "parse"
  /\ owner = None /\ repo_name = None /\ url = None
  /\ file_size = 0
  /\ f_open = FALSE /\ f_pos = 0 /\ reads = 0
  /\ encoded_chunks = << >>
  /\ pbar_total = 0 /\ pbar_n = 0
  /\ updates = << >>
  /\ content_b64 = << >>
  /\ requests = << >>
  /\ response = NoResponse
  /\ printed = [ tag |-> "None" ]
  /\ exception = "None"
  /\ io = << >>

StreamLocalsInit ==
  /\ s_pc = "summarize"
  /\ events = << >>
  /\ ai_response = << >>
  /\ started = FALSE
  /\ grounding_metadatas = << >>
  /\ ci = 0 /\ bi = 0 /\ gi = 0
  /\ ctx_messages = << >>

\* ---------------------------------------------- upload_with_real_progress

Init ==
  /\ REPO_NAME \in RepoNames
  /\ fileKind \in { "regular", "missing", "unopenable" }
  /\ \E n \in FileSizes, seed \in 0..MaxSeed :
       /\ fileContent = FileBytes(n, seed)
       /\ fileKind # "regular" => (n = 0 /\ seed = 0)
       /\ readFailAt \in 0..ReadsOf(n)
       /\ fileKind # "regular" => readFailAt = 0
  /\ UploadLocalsInit
  /\ chunks = << >>
  /\ StreamLocalsInit

Raise(e) == pc' = "raised" /\ exception' = e

\* lines 12-18
ParseRepo ==
  /\ pc = "parse"
  /\ owner' = OwnerOf(REPO_NAME)
  /\ repo_name' = RepoOf(REPO_NAME)
  /\ IF ~Truthy(owner')
       THEN Raise("ValueError") /\ UNCHANGED url
       ELSE /\ url' = << owner', repo_name' >>
            /\ pc' = "getsize"
            /\ UNCHANGED exception
  /\ UNCHANGED << REPO_NAME, fileKind, fileContent, readFailAt, file_size,
                  f_open, f_pos, reads, encoded_chunks, pbar_total, pbar_n,
                  updates, content_b64, requests, response, printed >>
  /\ UNCHANGED io
  /\ UNCHANGED streamVars

\* lines 20-24
GetSize ==
  /\ pc = "getsize"
  /\ IF fileKind = "missing"
       THEN Raise("OSError") /\ UNCHANGED file_size
       ELSE /\ file_size' = Len(fileContent)
            /\ pc' = "open"
            /\ UNCHANGED exception
  /\ UNCHANGED << REPO_NAME, fileKind, fileContent, readFailAt, owner,
                  repo_name, url, f_open, f_pos, reads, encoded_chunks,
                  pbar_total, pbar_n, updates, content_b64, requests,
                  response, printed >>
  /\ io' = Append(io, "getsize")
  /\ UNCHANGED streamVars

\* lines 27-30
OpenFile ==
  /\ pc = "open"
  /\ encoded_chunks' = << >>
  /\ IF fileKind # "regular"
       THEN /\ Raise("OSError")
            /\ UNCHANGED << f_open, f_pos, pbar_total, pbar_n >>
       ELSE /\ f_open' = TRUE
            /\ f_pos' = 0
            /\ pbar_total' = file_size
            /\ pbar_n' = 0
            /\ pc' = "read"
            /\ UNCHANGED exception
  /\ UNCHANGED << REPO_NAME, fileKind, fileContent, readFailAt, owner,
                  repo_name, url, file_size, reads, updates, content_b64,
                  requests, response, printed >>
  /\ io' = Append(io, "open")
  /\ UNCHANGED streamVars

\* f.read(size): the next at most size bytes, b"" at the end of the file
FRead(size) == SubSeq(fileContent, f_pos + 1, Min(f_pos + size, Len(fileContent)))

\* the amount passed to pbar.update for a chunk
ProgressAmountEncoded(chunk) == Len(b64encode(chunk))
ProgressAmount(chunk) == Len(chunk)

\* lines 31-36, one iteration of the loop
ReadChunkErrorIsEOF ==
  /\ pc = "read"
  /\ reads' = reads + 1
  /\ IF reads' = readFailAt
       THEN /\ pc' = "join"
            /\ f_open' = FALSE
            /\ UNCHANGED << exception, f_pos, encoded_chunks, pbar_n, updates >>
       ELSE LET chunk == FRead(ChunkSize)
            IN  /\ f_pos' = f_pos + Len(chunk)
                /\ UNCHANGED exception
                /\ IF chunk = << >>
                     THEN /\ f_open' = FALSE
                          /\ pc' = "join"
                          /\ UNCHANGED << encoded_chunks, pbar_n, updates >>
                     ELSE /\ encoded_chunks' =
                               Append(encoded_chunks, b64encode(chunk))
                          /\ pbar_n' = pbar_n + ProgressAmount(chunk)
                          /\ updates' = Append(updates, ProgressAmount(chunk))
                          /\ pc' = "read"
                          /\ UNCHANGED f_open
  /\ UNCHANGED << REPO_NAME, fileKind, fileContent, readFailAt, owner,
                  repo_name, url, file_size, pbar_total, content_b64,
                  requests, response, printed >>
  /\ io' = Append(io, "read")
  /\ UNCHANGED streamVars
ReadChunk ==
  /\ pc = "read"
  /\ reads' = reads + 1
  /\ IF reads' = readFailAt
       THEN /\ Raise("OSError")
            /\ f_open' = FALSE
            /\ UNCHANGED << f_pos, encoded_chunks, pbar_n, updates >>
       ELSE LET chunk == FRead(ChunkSize)
            IN  /\ f_pos' = f_pos + Len(chunk)
                /\ UNCHANGED exception
                /\ IF chunk = << >>
                     THEN /\ f_open' = FALSE
                          /\ pc' = "join"
                          /\ UNCHANGED << encoded_chunks, pbar_n, updates >>
                     ELSE /\ encoded_chunks' =
                               Append(encoded_chunks, b64encode(chunk))
                          /\ pbar_n' = pbar_n + ProgressAmount(chunk)
                          /\ updates' = Append(updates, ProgressAmount(chunk))
                          /\ pc' = "read"
                          /\ UNCHANGED f_open
  /\ UNCHANGED << REPO_NAME, fileKind, fileContent, readFailAt, owner,
                  repo_name, url, file_size, pbar_total, content_b64,
                  requests, response, printed >>
  /\ io' = Append(io, "read")
  /\ UNCHANGED streamVars

\* lines 38-46
BuildBody ==
  /\ pc = "join"
  /\ content_b64' = Join(encoded_chunks)
  /\ pc' = "put"
  /\ UNCHANGED << REPO_NAME, fileKind, fileContent, readFailAt, owner,
                  repo_name, url, file_size, f_open, f_pos, reads,
                  encoded_chunks, pbar_total, pbar_n, updates, requests,
                  response, printed, exception >>
  /\ UNCHANGED io
  /\ UNCHANGED streamVars

\* line 48: the request is sent; the server answers or the transport fails
PutRetry ==
  /\ pc = "put"
  /\ requests' = Append(requests, [ url |-> url, content |-> content_b64 ])
  /\ \/ \E s \in StatusCodes, t \in BodyTexts :
          /\ response' = [ status_code |-> s, text |-> t ]
          /\ pc' = IF s \in { 200, 201 } THEN "classify" ELSE "put"
          /\ UNCHANGED exception
     \/ Raise("RequestException") /\ UNCHANGED response
  /\ UNCHANGED << REPO_NAME, fileKind, fileContent, readFailAt, owner,
                  repo_name, url, file_size, f_open, f_pos, reads,
                  encoded_chunks, pbar_total, pbar_n, updates, content_b64,
                  printed >>
  /\ io' = Append(io, "put")
  /\ UNCHANGED streamVars
Put ==
  /\ pc = "put"
  /\ requests' = Append(requests, [ url |-> url, content |-> content_b64 ])
  /\ \/ \E s \in StatusCodes, t \in BodyTexts :
          /\ response' = [ status_code |-> s, text |-> t ]
          /\ pc' = "classify"
          /\ UNCHANGED exception
     \/ Raise("RequestException") /\ UNCHANGED response
  /\ UNCHANGED << REPO_NAME, fileKind, fileContent, readFailAt, owner,
                  repo_name, url, file_size, f_open, f_pos, reads,
                  encoded_chunks, pbar_total, pbar_n, updates, content_b64,
                  printed >>
  /\ io' = Append(io, "put")
  /\ UNCHANGED streamVars

\* response.status_code in [200, 201]
IsSuccessAny2xx(status_code) == status_code \in 200..299
IsSuccessOnly200(status_code) == status_code = 200
IsSuccess(status_code) == status_code \in { 200, 201 }

\* lines 50-53
Classify ==
  /\ pc = "classify"
  /\ printed' = IF IsSuccess(response.status_code)
                  THEN [ tag |-> "Success" ]
                  ELSE [ tag |-> "Failure",
                         status_code |-> response.status_code,
                         message |-> response.text ]
  /\ pc' = "done"
  /\ UNCHANGED << REPO_NAME, fileKind, fileContent, readFailAt, owner,
                  repo_name, url, file_size, f_open, f_pos, reads,
                  encoded_chunks, pbar_total, pbar_n, updates, content_b64,
                  requests, response, exception >>
  /\ UNCHANGED io
  /\ UNCHANGED streamVars

Next ==
  \/ ParseRepo
  \/ GetSize
  \/ OpenFile
  \/ ReadChunk
  \/ BuildBody
  \/ Put
  \/ Classify

Spec == Init /\ [][Next]_vars

\* ----------------------------------------------------- GeminiTextAI.stream

\* chunk.response_metadata.get("grounding_metadata", False): truthy is FALSE
\* for an absent key or an empty dict; grounding_chunks is what
\* grounding_metadata.get("grounding_chunks", False) gives, << >> when falsy
GroundingMetadatas ==
  { [ truthy |-> FALSE, grounding_chunks |-> << >> ],
    [ truthy |-> TRUE, grounding_chunks |-> << >> ],
    [ truthy |-> TRUE, grounding_chunks |-> << "g" >> ] }

\* a block of a list content: a dict with a "text" key, a dict without one,
\* or a value that is no dict
TextBlock(t) == [ isDict |-> TRUE, hasText |-> TRUE, text |-> t ]
OtherDict == [ isDict |-> TRUE, hasText |-> FALSE, text |-> << >> ]
NoDict == [ isDict |-> FALSE, hasText |-> FALSE, text |-> << >> ]

StrContent(t) == [ isList |-> FALSE, blocks |-> << >>, text |-> t ]
ListContent(bs) == [ isList |-> TRUE, blocks |-> bs, text |-> << >> ]

Contents ==
  { StrContent(<< >>), StrContent(<< "x", "y" >>),
    ListContent(<< >>),
    ListContent(<< TextBlock(<< "a" >>) >>),
    ListContent(<< OtherDict, TextBlock(<< "b" >>) >>),
    ListContent(<< TextBlock(<< "a" >>), TextBlock(<< "b" >>) >>),
    ListContent(<< NoDict, OtherDict >>) }

ModelChunks ==
  { [ grounding_metadata |-> g, content |-> c ] :
      g \in GroundingMetadatas, c \in Contents }

\* the events the helpers of BaseAI build
StepEvent(name, text) == [ type |-> "step", name |-> name, text |-> text ]
StartEvent == [ type |-> "start" ]
StartedEvent == [ type |-> "started" ]
TextEvent(t) == [ type |-> "text", text |-> t ]
SourceEvent(c) == [ type |-> "source", citations |-> c ]
DurationEvent == [ type |-> "duration" ]
EndEvent == [ type |-> "end" ]

AIMessage(content) == [ role |-> "ai", content |-> content ]

InitStream ==
  /\ REPO_NAME = << "o", "/", "r" >>
  /\ fileKind = "regular"
  /\ fileContent = << >>
  /\ readFailAt = 0
  /\ UploadLocalsInit
  /\ chunks \in UNION { [ 1..n -> ModelChunks ] : n \in 0..MaxStreamChunks }
  /\ StreamLocalsInit

\* lines 32-38
YieldSummarizing ==
  /\ s_pc = "summarize"
  /\ events' = Append(events, StepEvent("info", "Summarizing context"))
  /\ s_pc' = "start"
  /\ UNCHANGED << chunks, ai_response, started, grounding_metadatas, ci, bi,
                  gi, ctx_messages >>
  /\ UNCHANGED uploadVars

\* lines 39-46
YieldStart ==
  /\ s_pc = "start"
  /\ ai_response' = << >>
  /\ events' = Append(events, StartEvent)
  /\ started' = FALSE
  /\ grounding_metadatas' = << >>
  /\ s_pc' = "next"
  /\ UNCHANGED << chunks, ci, bi, gi, ctx_messages >>
  /\ UNCHANGED uploadVars

\* lines 47-50: the next chunk of self.model.stream(context), if any
TakeChunk ==
  /\ s_pc = "next"
  /\ IF ci < Len(chunks)
       THEN LET chunk == chunks[ci + 1]
            IN  /\ ci' = ci + 1
                /\ bi' = 0
                /\ grounding_metadatas' =
                     IF chunk.grounding_metadata.truthy
                       THEN Append(grounding_metadatas, chunk.grounding_metadata)
                       ELSE grounding_metadatas
                /\ s_pc' = IF ~started THEN "started" ELSE "content"
       ELSE /\ s_pc' = "append"
            /\ UNCHANGED << ci, bi, grounding_metadatas >>
  /\ UNCHANGED << chunks, events, ai_response, started, gi, ctx_messages >>
  /\ UNCHANGED uploadVars

\* lines 51-52
YieldStartedFlagNotSet ==
  /\ s_pc = "started"
  /\ events' = Append(events, StartedEvent)
  /\ s_pc' = "content"
  /\ UNCHANGED << chunks, ai_response, started, grounding_metadatas, ci, bi,
                  gi, ctx_messages >>
  /\ UNCHANGED uploadVars
YieldStarted ==
  /\ s_pc = "started"
  /\ events' = Append(events, StartedEvent)
  /\ started' = TRUE
  /\ s_pc' = "content"
  /\ UNCHANGED << chunks, ai_response, grounding_metadatas, ci, bi, gi,
                  ctx_messages >>
  /\ UNCHANGED uploadVars

\* lines 54-61: the content of the current chunk, one block at a time when
\* it is a list
EmitContent ==
  /\ s_pc = "content"
  /\ LET content == chunks[ci].content
     IN  IF content.isList
           THEN IF bi < Len(content.blocks)
                  THEN LET block == content.blocks[bi + 1]
                       IN  /\ bi' = bi + 1
                           /\ s_pc' = "content"
                           /\ IF block.isDict /\ block.hasText
                                THEN /\ ai_response' = ai_response \o block.text
                                     /\ events' = Append(events, TextEvent(block.text))
                                ELSE UNCHANGED << ai_response, events >>
                  ELSE /\ s_pc' = "next"
                       /\ UNCHANGED << bi, ai_response, events >>
           ELSE /\ ai_response' = ai_response \o content.text
                /\ events' = Append(events, TextEvent(content.text))
                /\ s_pc' = "next"
                /\ UNCHANGED bi
  /\ UNCHANGED << chunks, started, grounding_metadatas, ci, gi, ctx_messages >>
  /\ UNCHANGED uploadVars

\* lines 63-66
AppendResponse ==
  /\ s_pc = "append"
  /\ ctx_messages' = Append(ctx_messages, AIMessage(ai_response))
  /\ IF grounding_metadatas # << >>
       THEN /\ events' = Append(events,
                 StepEvent("fetch_source_information", "Preparing Citations"))
            /\ gi' = 0
            /\ s_pc' = "sources"
       ELSE /\ s_pc' = "duration"
            /\ UNCHANGED << events, gi >>
  /\ UNCHANGED << chunks, ai_response, started, grounding_metadatas, ci, bi >>
  /\ UNCHANGED uploadVars

\* lines 67-69
YieldSource ==
  /\ s_pc = "sources"
  /\ IF gi < Len(grounding_metadatas)
       THEN LET grounding_metadata == grounding_metadatas[gi + 1]
            IN  /\ gi' = gi + 1
                /\ s_pc' = "sources"
                /\ events' =
                     IF grounding_metadata.grounding_chunks # << >>
                       THEN Append(events,
                                   SourceEvent(grounding_metadata.grounding_chunks))
                       ELSE events
       ELSE /\ s_pc' = "duration"
            /\ UNCHANGED << gi, events >>
  /\ UNCHANGED << chunks, ai_response, started, grounding_metadatas, ci, bi,
                  ctx_messages >>
  /\ UNCHANGED uploadVars

\* lines 71-73
YieldDuration ==
  /\ s_pc = "duration"
  /\ events' = Append(events, DurationEvent)
  /\ s_pc' = "end"
  /\ UNCHANGED << chunks, ai_response, started, grounding_metadatas, ci, bi,
                  gi, ctx_messages >>
  /\ UNCHANGED uploadVars

\* line 74
YieldEnd ==
  /\ s_pc = "end"
  /\ events' = Append(events, EndEvent)
  /\ s_pc' = "done"
  /\ UNCHANGED << chunks, ai_response, started, grounding_metadatas, ci, bi,
                  gi, ctx_messages >>
  /\ UNCHANGED uploadVars

NextStream ==
  \/ YieldSummarizing
  \/ YieldStart
  \/ TakeChunk
  \/ YieldStarted
  \/ EmitContent
  \/ AppendResponse
  \/ YieldSource
  \/ YieldDuration
  \/ YieldEnd

SpecStream == InitStream /\ [][NextStream]_vars

\* ------------------------------------------------ properties of the upload

\* the identifier decomposes into a non-empty owner and a non-empty repo
ValidRepoId(name) ==
  /\ HasSlash(name)
  /\ Split(name)[1] # << >>
  /\ Split(name)[2] # << >>

\* what local_file_path names can be read to its end
Readable == fileKind = "regular" /\ readFailAt = 0

\* the read loop was left through its break
LoopDone ==
  \/ pc \in { "join", "put", "classify", "done" }
  \/ pc = "raised" /\ exception = "RequestException"

\* C1: every payload transmitted is the base64 encoding of the whole file
\* (the concatenation of the independently encoded chunks equals the
\* encoding of the file at once), whatever the size of the file, in a run
\* with a valid repo identifier.
C1_PayloadIsEncodingOfFile ==
  ValidRepoId(REPO_NAME) =>
    \A i \in 1..Len(requests) : requests[i].content = b64encode(fileContent)

\* C2: when the read loop terminates, the amounts passed to the progress
\* updates sum to the size of the file, each being the raw length of the
\* chunk just read.
C2_ProgressSumsToFileSize ==
  LoopDone =>
    /\ Sum(updates) = Len(fileContent)
    /\ \A i \in 1..Len(updates) :
         updates[i] = Min(ChunkSize, Len(fileContent) - (i - 1) * ChunkSize)

C2_Witness ==
  /\ pc = "join"
  /\ Len(fileContent) = ChunkSize + 1
  /\ updates = << ChunkSize, 1 >>

\* C3: a repo identifier without "/" makes the call raise the configuration
\* error (ValueError) with no file or network operation attempted before.
C3_NoSlashFailsBeforeIO ==
  ~HasSlash(REPO_NAME) =>
    /\ io = << >>
    /\ requests = << >>
    /\ pc \in { "parse", "raised" }
    /\ pc = "raised" => exception = "ValueError"

C3_Witness ==
  /\ REPO_NAME = << "o", "r" >>
  /\ pc = "raised"
  /\ exception = "ValueError"

\* C4: a file or network operation is attempted only for an identifier that
\* decomposes into a non-empty owner and a non-empty repo segment.
C4_OnlyValidRepoIdReachesIO ==
  io # << >> => ValidRepoId(REPO_NAME)

\* C5: once the response is classified, the outcome is Success exactly for
\* the statuses 200 and 201, and otherwise the Failure carrying the status
\* code and the body text; classification raises nothing.
C5_ClassifiedByStatusAlone ==
  pc = "done" =>
    /\ exception = "None"
    /\ printed = IF response.status_code = 200 \/ response.status_code = 201
                   THEN [ tag |-> "Success" ]
                   ELSE [ tag |-> "Failure",
                          status_code |-> response.status_code,
                          message |-> response.text ]

C5_Witness ==
  /\ pc = "done"
  /\ response = [ status_code |-> 403, text |-> "Bad credentials" ]
  /\ printed = [ tag |-> "Failure", status_code |-> 403,
                 message |-> "Bad credentials" ]

\* C6: for a zero-byte file there is no progress update, the one PUT issued
\* carries the empty content, and a 201 response is reported as success.
C6_ZeroByteFile ==
  (fileKind = "regular" /\ fileContent = << >>) =>
    /\ updates = << >>
    /\ Len(requests) <= 1
    /\ \A i \in 1..Len(requests) : requests[i].content = << >>
    /\ pc \in { "classify", "done" } => Len(requests) = 1
    /\ (pc = "done" /\ response.status_code = 201) =>
         printed = [ tag |-> "Success" ]

C6_Witness ==
  /\ fileKind = "regular" /\ fileContent = << >>
  /\ pc = "done"
  /\ response.status_code = 201
  /\ Len(requests) = 1
  /\ printed = [ tag |-> "Success" ]

\* C7: at most one PUT is ever issued; it is issued after the whole file was
\* read and encoded; and a finished run with a valid repo identifier and a
\* readable file has issued exactly one, whatever the response or failure.
C7_ExactlyOnePutAfterEncoding ==
  /\ Len(requests) <= 1
  /\ requests # << >> =>
       /\ f_pos = Len(fileContent)
       /\ reads = ReadsOf(Len(fileContent))
       /\ ~f_open
       /\ Len(encoded_chunks) = ReadsOf(Len(fileContent)) - 1
       /\ requests[1].content = Join(encoded_chunks)
  /\ (pc \in { "done", "raised" } /\ ValidRepoId(REPO_NAME) /\ Readable) =>
       Len(requests) = 1

C7_Witness ==
  /\ pc = "done"
  /\ response.status_code = 500
  /\ Len(requests) = 1
  /\ Len(encoded_chunks) = 2

\* C8: when the file is missing, cannot be opened or a read fails, no PUT is
\* issued, the run never gets past the read loop, and the run that got to
\* the file raises an I/O error (OSError).
C8_UnreadableFileNoPut ==
  ~Readable =>
    /\ requests = << >>
    /\ pc \notin { "join", "put", "classify", "done" }
    /\ (pc = "raised" /\ io # << >>) => exception = "OSError"

C8_Witness ==
  /\ readFailAt = 2
  /\ pc = "raised"
  /\ exception = "OSError"
  /\ Len(updates) = 1
  /\ requests = << >>

\* C9: the progress state satisfies 0 <= bytes_read <= total_bytes, the
\* total being the size measured before the file was opened, and bytes_read
\* never decreases.
C9_ProgressWithinTotal ==
  /\ [](/\ 0 <= pbar_n
        /\ pbar_n <= pbar_total
        /\ pc = "read" => (pbar_total = file_size /\ file_size = Len(fileContent)))
  /\ [][pbar_n' >= pbar_n]_vars

C9_Witness ==
  /\ pc = "read"
  /\ Len(updates) = 2
  /\ pbar_n = pbar_total
  /\ pbar_n = ChunkSize + 2

\* ------------------------------------------------ properties of the stream

\* the place of an event in the order the stream is to keep
Rank(e) ==
  IF e.type = "step" THEN (IF e.name = "info" THEN 1 ELSE 5)
  ELSE IF e.type = "start" THEN 2
  ELSE IF e.type = "started" THEN 3
  ELSE IF e.type = "text" THEN 4
  ELSE IF e.type = "source" THEN 6
  ELSE IF e.type = "duration" THEN 7
  ELSE 8

CountRank(es, r) == Cardinality({ i \in 1..Len(es) : Rank(es[i]) = r })

\* the texts of the text events of es, concatenated
RECURSIVE TextOfEvents(_)
TextOfEvents(es) ==
  IF es = << >> THEN << >>
  ELSE (IF Head(es).type = "text" THEN Head(es).text ELSE << >>)
       \o TextOfEvents(Tail(es))

\* the number of texts the chunks cs carry: one for a content that is no
\* list, one for every dict with a "text" key of a list
RECURSIVE NumTexts(_)
NumTexts(cs) ==
  IF cs = << >> THEN 0
  ELSE (IF Head(cs).content.isList
          THEN Cardinality({ i \in 1..Len(Head(cs).content.blocks) :
                               /\ Head(cs).content.blocks[i].isDict
                               /\ Head(cs).content.blocks[i].hasText })
          ELSE 1)
       + NumTexts(Tail(cs))

SomeGrounding ==
  \E i \in 1..Len(chunks) : chunks[i].grounding_metadata.truthy

\* C10: the events are ordered Summarizing step, start, started (at most
\* once, before any text, never without a chunk), texts, citations step and
\* sources (only with grounding metadata), duration, end (once, last); the
\* assistant message is appended once, after the last text event, with the
\* concatenation of the emitted texts.
C10_StreamEventOrder ==
  /\ \A i \in 1..Len(events), j \in 1..Len(events) :
       i < j => Rank(events[i]) <= Rank(events[j])
  /\ \A r \in { 1, 2, 3, 5, 7, 8 } : CountRank(events, r) <= 1
  /\ chunks = << >> => CountRank(events, 3) = 0
  /\ ~SomeGrounding => (CountRank(events, 5) = 0 /\ CountRank(events, 6) = 0)
  /\ CountRank(events, 6) > 0 => CountRank(events, 5) = 1
  /\ Len(ctx_messages) <= 1
  /\ ctx_messages # << >> =>
       /\ ctx_messages[1] = AIMessage(TextOfEvents(events))
       /\ CountRank(events, 4) = NumTexts(chunks)
  /\ s_pc = "done" =>
       /\ events[1] = StepEvent("info", "Summarizing context")
       /\ events[2] = StartEvent
       /\ CountRank(events, 7) = 1
       /\ events[Len(events)] = EndEvent
       /\ Len(ctx_messages) = 1

C10_Witness ==
  /\ s_pc = "done"
  /\ Len(chunks) = 2
  /\ CountRank(events, 3) = 1
  /\ CountRank(events, 4) = 3
  /\ CountRank(events, 5) = 1
  /\ CountRank(events, 6) = 1
  /\ ctx_messages = << AIMessage(<< "a", "b", "x", "y" >>) >>

====
